---- MODULE Spec2Model ----
\* Model of OidcClient (src/src/frontend/api/OidcClient.ts): the session
\* manager that attaches to an oidc-client UserManager, tracks the current
\* AccessToken and re-broadcasts the engine's lifecycle events.
EXTENDS Integers, FiniteSets, Sequences, TLC

\* ---------------------------------------------------------------- bounds
MaxEvents == 2       \* lifecycle events the engine raises in one run
MaxCalls == 2        \* public calls (signIn, signOut, dispose, add/remove listener)
MaxListeners == 1    \* listener identities 1..MaxListeners

\* ------------------------------------------------------- the environment
RedirectPath == "/signin-oidc"
RootPath == "/"
Paths == {RootPath, RedirectPath, "/viewer"}

Undefined == "undefined"

Events == {"userLoaded", "silentRenewError", "accessTokenExpired",
           "userUnloaded", "userSignedOut"}

Listeners == 1..MaxListeners

\* The profile claims the manager reads; a claim the provider left out is
\* undefined.
Profiles == {[email |-> "e", sub |-> "s"],
             [email |-> Undefined, sub |-> "s"],
             [email |-> "e", sub |-> Undefined]}

\* The raw user records the engine hands over (oidc-client User): expires_at
\* is the expiry timestamp, expires_in the validity that remains (negative
\* once it has passed).
ExpiresAt == {5, 9}
ExpiresIn == {-1, 0, 2}
Users == {u \in [access_token : {"jwt"}, expires_at : ExpiresAt,
                 expires_in : ExpiresIn, profile : Profiles] :
            (u.expires_in <= 0 \/ u.expires_at = 9) =>
              /\ u.profile.email # Undefined
              /\ u.profile.sub # Undefined
              /\ u.expires_at = 9 => u.expires_in = 2}

\* User.expired of oidc-client: the remaining validity is used up.
expired(user) == user.expires_in <= 0

NoToken == [kind |-> Undefined]
NoUser == [kind |-> Undefined]

\* createAccessToken adding the remaining validity instead of subtracting it
createAccessTokenSignSlip(user) ==
  [kind |-> "AccessToken",
   jwt |-> user.access_token,
   startsAt |-> user.expires_at + user.expires_in,
   expiresAt |-> user.expires_at,
   email |-> user.profile.email,
   sub |-> user.profile.sub]

\* createAccessToken (lines 167-172): start = expires_at - expires_in, the
\* token string and the profile claims are copied; nothing is validated.
createAccessToken(user) ==
  [kind |-> "AccessToken",
   jwt |-> user.access_token,
   startsAt |-> user.expires_at - user.expires_in,
   expiresAt |-> user.expires_at,
   email |-> user.profile.email,
   sub |-> user.profile.sub]

Tokens == {NoToken} \cup {createAccessToken(u) : u \in Users}

\* ------------------------------------------------------------- the state
VARIABLES
  setup,            \* position of the constructor's async executor
  ready,            \* state of the _ready promise
  _userManager,     \* TRUE once this._userManager is assigned
  subscribed,       \* engine events that hold one of the manager's handlers
  getUser,          \* the initial getUser() promise
  signinCallback,   \* the signinRedirectCallback() promise
  signoutCallback,  \* the signoutRedirectCallback() promise
  _accessToken,     \* this._accessToken
  pathname,         \* window.location.pathname
  listeners,        \* listeners of onUserStateChanged
  sinceConstruction, \* listeners added before setup's first step, never removed
  invoked,          \* per listener: its invocations by the latest transition
  lastDelivered,    \* per listener: the argument of its latest invocation
  signinRedirects,  \* signinRedirect() commands issued to the engine
  signoutRedirects, \* signoutRedirect() commands issued to the engine
  replaced,         \* window.location.replace("/") calls
  logged,           \* console.error calls
  unhandled,        \* a rejection left the manager without a handler
  lastCall,         \* the latest public call and whether it threw
  last,             \* the latest transition: its trigger, its user, isLoading
                    \* and the listeners at that moment
  disposals,        \* dispose() calls made so far
  nEvents,          \* lifecycle events raised so far
  nCalls            \* public calls made so far

vars == <<setup, ready, _userManager, subscribed, getUser, signinCallback,
          signoutCallback, _accessToken, pathname, listeners, sinceConstruction, invoked,
          lastDelivered, signinRedirects, signoutRedirects, replaced, logged,
          unhandled, lastCall, last, disposals, nEvents, nCalls>>

engineVars == <<signinRedirects, signoutRedirects, replaced>>
channelVars == <<invoked, lastDelivered>>
callVars == <<lastCall, disposals, nCalls>>

\* isLoading (line 123)
isLoading == pathname = RedirectPath

\* accessToken (line 120)
accessToken == _accessToken

Init ==
  /\ setup = "discovering"
  /\ ready = "pending"
  /\ _userManager = FALSE
  /\ subscribed = {}
  /\ getUser = "idle"
  /\ signinCallback = "idle"
  /\ signoutCallback = "idle"
  /\ _accessToken = NoToken
  /\ pathname \in Paths
  /\ listeners = {}
  /\ sinceConstruction = {}
  /\ invoked = [l \in Listeners |-> 0]
  /\ lastDelivered = [l \in Listeners |-> NoToken]
  /\ signinRedirects = 0
  /\ signoutRedirects = 0
  /\ replaced = 0
  /\ logged = 0
  /\ unhandled = FALSE
  /\ lastCall = [op |-> "none", threw |-> FALSE]
  /\ last = [kind |-> "none", user |-> NoUser, loading |-> FALSE,
            listeners |-> {}]
  /\ disposals = 0
  /\ nEvents = 0
  /\ nCalls = 0

\* ------------------------------------------------ the notification channel
\* raiseEvent handing over the token held before the assignment of line 66
raiseEventStale(token) ==
  /\ invoked' = [l \in Listeners |-> IF l \in listeners THEN 1 ELSE 0]
  /\ lastDelivered' = [l \in Listeners |->
                         IF l \in listeners THEN _accessToken ELSE lastDelivered[l]]

\* BeEvent.raiseEvent (line 73): every current listener is invoked once,
\* with the token passed in.
raiseEvent(token) ==
  /\ invoked' = [l \in Listeners |-> IF l \in listeners THEN 1 ELSE 0]
  /\ lastDelivered' = [l \in Listeners |->
                         IF l \in listeners THEN token ELSE lastDelivered[l]]

\* _onUserStateChanged without the isLoading test of line 68
onUserStateChangedAlwaysRaises(token, reason, user) ==
  /\ _accessToken' = token
  /\ last' = [kind |-> reason, user |-> user, loading |-> isLoading,
              listeners |-> listeners]
  /\ invoked' = [l \in Listeners |-> IF l \in listeners THEN 1 ELSE 0]
  /\ lastDelivered' = [l \in Listeners |->
                         IF l \in listeners THEN token ELSE lastDelivered[l]]

\* _onUserStateChanged with the isLoading test moved above the assignment
onUserStateChangedReturnsEarly(token, reason, user) ==
  /\ last' = [kind |-> reason, user |-> user, loading |-> isLoading,
              listeners |-> listeners]
  /\ IF isLoading
       THEN /\ invoked' = [l \in Listeners |-> 0]
            /\ UNCHANGED <<_accessToken, lastDelivered>>
       ELSE /\ _accessToken' = token
            /\ invoked' = [l \in Listeners |-> IF l \in listeners THEN 1 ELSE 0]
            /\ lastDelivered' = [l \in Listeners |->
                                   IF l \in listeners THEN token ELSE lastDelivered[l]]

\* _onUserStateChanged (lines 65-74)
_onUserStateChanged(token, reason, user) ==
  /\ _accessToken' = token
  /\ last' = [kind |-> reason, user |-> user, loading |-> isLoading,
              listeners |-> listeners]
  /\ IF isLoading
       THEN /\ invoked' = [l \in Listeners |-> 0]
            /\ UNCHANGED lastDelivered
       ELSE raiseEvent(token)

\* _onUserLoaded (lines 80-82)
_onUserLoaded(user, reason) ==
  _onUserStateChanged(createAccessToken(user), reason, user)

\* _onUserExpired (lines 89-91)
_onUserExpired(reason) == _onUserStateChanged(NoToken, reason, NoUser)

\* _onUserUnloaded (lines 97-99)
_onUserUnloaded(reason) == _onUserStateChanged(NoToken, reason, NoUser)

\* _onUserSignedOut (lines 105-107)
_onUserSignedOut(reason) == _onUserStateChanged(NoToken, reason, NoUser)

\* _onError (lines 114-117)
_onError(reason) ==
  /\ logged' = logged + 1
  /\ _onUserStateChanged(NoToken, reason, NoUser)

\* ------------------------------------------------------------------ setup
\* createOidcSettings (lines 150-165) rejects: discovery fails or a
\* configuration key is missing. createUserManager's promise has no rejection
\* handler (line 26) and the executor's await (line 20) rethrows inside an
\* async function whose promise nobody observes; resolve() is never reached.
createOidcSettingsRejects ==
  /\ setup = "discovering"
  /\ setup' = "settingsRejected"
  /\ unhandled' = TRUE
  /\ UNCHANGED <<ready, _userManager, subscribed, getUser, signinCallback,
                 signoutCallback, _accessToken, pathname, listeners, sinceConstruction,
                 channelVars, engineVars, logged, callVars, last, nEvents>>

\* new UserManager(settings) throws (line 27): the assignment does not take
\* place and the rejection leaves the manager as above.
userManagerConstructorThrows ==
  /\ setup = "discovering"
  /\ setup' = "constructorThrew"
  /\ unhandled' = TRUE
  /\ UNCHANGED <<ready, _userManager, subscribed, getUser, signinCallback,
                 signoutCallback, _accessToken, pathname, listeners, sinceConstruction,
                 channelVars, engineVars, logged, callVars, last, nEvents>>

\* createUserManager keeping the engine in a local instead of this._userManager
createUserManagerLocalOnly ==
  /\ setup = "discovering"
  /\ setup' = "attached"
  /\ subscribed' = Events
  /\ getUser' = "pending"
  /\ IF pathname = RedirectPath
       THEN signinCallback' = "pending" /\ signoutCallback' = "pending"
       ELSE UNCHANGED <<signinCallback, signoutCallback>>
  /\ UNCHANGED <<ready, _userManager, _accessToken, pathname, listeners, sinceConstruction,
                 channelVars, engineVars, logged, unhandled, callVars, last,
                 nEvents>>

\* createUserManager completing the redirect callbacks whatever the page is
createUserManagerAlwaysCompletes ==
  /\ setup = "discovering"
  /\ setup' = "attached"
  /\ _userManager' = TRUE
  /\ subscribed' = Events
  /\ getUser' = "pending"
  /\ signinCallback' = "pending"
  /\ signoutCallback' = "pending"
  /\ UNCHANGED <<ready, _accessToken, pathname, listeners, sinceConstruction,
                 channelVars, engineVars, logged, unhandled, callVars, last,
                 nEvents>>

\* the then-callback of createUserManager (lines 26-49)
createUserManager ==
  /\ setup = "discovering"
  /\ setup' = "attached"
  /\ _userManager' = TRUE
  /\ subscribed' = Events
  /\ getUser' = "pending"
  /\ IF pathname = RedirectPath
       THEN signinCallback' = "pending" /\ signoutCallback' = "pending"
       ELSE UNCHANGED <<signinCallback, signoutCallback>>
  /\ UNCHANGED <<ready, _accessToken, pathname, listeners, sinceConstruction, channelVars,
                 engineVars, logged, unhandled, callVars, last, nEvents>>

\* the executor's continuation after the await (lines 20-21)
resolveReady ==
  /\ setup = "attached"
  /\ setup' = "done"
  /\ ready' = IF ready = "pending" THEN "resolved" ELSE ready
  /\ UNCHANGED <<_userManager, subscribed, getUser, signinCallback,
                 signoutCallback, _accessToken, pathname, listeners, sinceConstruction,
                 channelVars, engineVars, logged, unhandled, callVars, last,
                 nEvents>>

transitionFrame ==
  UNCHANGED <<setup, ready, _userManager, subscribed, signinCallback,
              signoutCallback, pathname, listeners, sinceConstruction, engineVars, unhandled,
              callVars>>

\* what the initial query returned: no user, an expired user, a valid user
getUserResult(user) ==
  IF user = NoUser THEN "getUserNone"
  ELSE IF expired(user) THEN "getUserExpired"
  ELSE "getUserValid"

\* getUser() fulfils, with line 34 testing the user's presence only
getUserFulfilledNoExpiryTest ==
  /\ getUser = "pending"
  /\ getUser' = "settled"
  /\ \E user \in Users \cup {NoUser} :
       IF user # NoUser
         THEN _onUserLoaded(user, getUserResult(user))
         ELSE _onUserExpired(getUserResult(user))
  /\ transitionFrame
  /\ UNCHANGED <<logged, nEvents>>

\* getUser() fulfils (lines 33-37)
getUserFulfilled ==
  /\ getUser = "pending"
  /\ getUser' = "settled"
  /\ \E user \in Users \cup {NoUser} :
       IF user # NoUser /\ ~expired(user)
         THEN _onUserLoaded(user, getUserResult(user))
         ELSE _onUserExpired(getUserResult(user))
  /\ transitionFrame
  /\ UNCHANGED <<logged, nEvents>>

\* getUser() rejects (line 38)
getUserRejected ==
  /\ getUser = "pending"
  /\ getUser' = "settled"
  /\ _onError("getUserError")
  /\ transitionFrame
  /\ UNCHANGED <<nEvents>>

callbackFrame ==
  UNCHANGED <<setup, ready, _userManager, subscribed, getUser, listeners, sinceConstruction,
              signinRedirects, signoutRedirects, unhandled, callVars, nEvents>>

\* signinRedirectCallback() fulfils (lines 41-43)
signinCallbackFulfilled ==
  /\ signinCallback = "pending"
  /\ signinCallback' = "settled"
  /\ pathname' = RootPath
  /\ replaced' = replaced + 1
  /\ callbackFrame
  /\ UNCHANGED <<signoutCallback, _accessToken, channelVars, logged, last>>

\* signinRedirectCallback() rejects (line 43)
signinCallbackRejected ==
  /\ signinCallback = "pending"
  /\ signinCallback' = "settled"
  /\ _onError("signinCallbackError")
  /\ callbackFrame
  /\ UNCHANGED <<signoutCallback, pathname, replaced>>

\* signoutRedirectCallback() fulfils (lines 44-46)
signoutCallbackFulfilled ==
  /\ signoutCallback = "pending"
  /\ signoutCallback' = "settled"
  /\ pathname' = RootPath
  /\ replaced' = replaced + 1
  /\ callbackFrame
  /\ UNCHANGED <<signinCallback, _accessToken, channelVars, logged, last>>

\* signoutRedirectCallback() rejects (line 46)
signoutCallbackRejected ==
  /\ signoutCallback = "pending"
  /\ signoutCallback' = "settled"
  /\ _onError("signoutCallbackError")
  /\ callbackFrame
  /\ UNCHANGED <<signinCallback, pathname, replaced>>

\* ------------------------------------------------- engine lifecycle events
\* The engine invokes a handler only while it is registered for the event.
eventFrame(e) ==
  /\ e \in subscribed
  /\ nEvents < MaxEvents
  /\ nEvents' = nEvents + 1
  /\ transitionFrame
  /\ UNCHANGED <<getUser>>

userLoaded ==
  /\ eventFrame("userLoaded")
  /\ \E user \in Users : _onUserLoaded(user, "userLoaded")
  /\ UNCHANGED <<logged>>

silentRenewError ==
  /\ eventFrame("silentRenewError")
  /\ _onError("silentRenewError")

accessTokenExpired ==
  /\ eventFrame("accessTokenExpired")
  /\ _onUserExpired("accessTokenExpired")
  /\ UNCHANGED <<logged>>

userUnloaded ==
  /\ eventFrame("userUnloaded")
  /\ _onUserUnloaded("userUnloaded")
  /\ UNCHANGED <<logged>>

userSignedOut ==
  /\ eventFrame("userSignedOut")
  /\ _onUserSignedOut("userSignedOut")
  /\ UNCHANGED <<logged>>

\* ---------------------------------------------------------- public calls
callFrame(op, threw) ==
  /\ nCalls < MaxCalls
  /\ nCalls' = nCalls + 1
  /\ lastCall' = [op |-> op, threw |-> threw]
  /\ UNCHANGED <<setup, ready, getUser, signinCallback, signoutCallback,
                 _accessToken, pathname, channelVars, replaced, logged,
                 unhandled, last, nEvents>>

\* signIn without the test of line 132
signInUnguarded ==
  /\ callFrame("signIn", FALSE)
  /\ signinRedirects' = signinRedirects + 1
  /\ UNCHANGED <<_userManager, subscribed, listeners, sinceConstruction, signoutRedirects, disposals>>

\* signIn (lines 131-135)
signIn ==
  /\ IF ~_userManager
       THEN callFrame("signIn", TRUE) /\ UNCHANGED signinRedirects
       ELSE callFrame("signIn", FALSE) /\ signinRedirects' = signinRedirects + 1
  /\ UNCHANGED <<_userManager, subscribed, listeners, sinceConstruction, signoutRedirects, disposals>>

\* signOut dropping the held token and telling the listeners itself
signOutClearsToken ==
  /\ nCalls < MaxCalls
  /\ nCalls' = nCalls + 1
  /\ lastCall' = [op |-> "signOut", threw |-> ~_userManager]
  /\ IF ~_userManager
       THEN UNCHANGED <<signoutRedirects, _accessToken, channelVars>>
       ELSE /\ signoutRedirects' = signoutRedirects + 1
            /\ _accessToken' = NoToken
            /\ raiseEvent(NoToken)
  /\ UNCHANGED <<setup, ready, getUser, signinCallback, signoutCallback,
                 pathname, replaced, logged, unhandled, last, nEvents,
                 _userManager, subscribed, listeners, sinceConstruction,
                 signinRedirects, disposals>>

\* signOut (lines 143-147)
signOut ==
  /\ IF ~_userManager
       THEN callFrame("signOut", TRUE) /\ UNCHANGED signoutRedirects
       ELSE callFrame("signOut", FALSE) /\ signoutRedirects' = signoutRedirects + 1
  /\ UNCHANGED <<_userManager, subscribed, listeners, sinceConstruction, signinRedirects, disposals>>

\* dispose without the test of line 55: reading events of undefined throws
disposeUnguarded ==
  /\ callFrame("dispose", ~_userManager)
  /\ disposals' = disposals + 1
  /\ IF ~_userManager
       THEN UNCHANGED subscribed
       ELSE subscribed' = subscribed \ Events
  /\ UNCHANGED <<_userManager, listeners, sinceConstruction, signinRedirects, signoutRedirects>>

\* dispose (lines 54-63): the engine's removeHandler ignores a handler that
\* is not registered.
dispose ==
  /\ callFrame("dispose", FALSE)
  /\ disposals' = disposals + 1
  /\ IF ~_userManager
       THEN UNCHANGED subscribed
       ELSE subscribed' = subscribed \ Events
  /\ UNCHANGED <<_userManager, listeners, sinceConstruction, signinRedirects, signoutRedirects>>

\* onUserStateChanged.addListener (line 16)
addListener ==
  /\ \E l \in Listeners \ listeners :
       /\ listeners' = listeners \cup {l}
       /\ sinceConstruction' = IF setup = "discovering"
                                 THEN sinceConstruction \cup {l}
                                 ELSE sinceConstruction
  /\ callFrame("addListener", FALSE)
  /\ UNCHANGED <<_userManager, subscribed, signinRedirects, signoutRedirects,
                 disposals>>

\* onUserStateChanged.removeListener (line 16)
removeListener ==
  /\ \E l \in listeners :
       /\ listeners' = listeners \ {l}
       /\ sinceConstruction' = sinceConstruction \ {l}
  /\ callFrame("removeListener", FALSE)
  /\ UNCHANGED <<_userManager, subscribed, signinRedirects, signoutRedirects,
                 disposals>>

\* ---------------------------------------------------------- specification
SetupStep ==
  \/ createOidcSettingsRejects
  \/ userManagerConstructorThrows
  \/ createUserManager
  \/ resolveReady

PromiseStep ==
  \/ getUserFulfilled
  \/ getUserRejected
  \/ signinCallbackFulfilled
  \/ signinCallbackRejected
  \/ signoutCallbackFulfilled
  \/ signoutCallbackRejected

Next ==
  \/ createOidcSettingsRejects
  \/ userManagerConstructorThrows
  \/ createUserManager
  \/ resolveReady
  \/ getUserFulfilled
  \/ getUserRejected
  \/ signinCallbackFulfilled
  \/ signinCallbackRejected
  \/ signoutCallbackFulfilled
  \/ signoutCallbackRejected
  \/ userLoaded
  \/ silentRenewError
  \/ accessTokenExpired
  \/ userUnloaded
  \/ userSignedOut
  \/ signIn
  \/ signOut
  \/ dispose
  \/ addListener
  \/ removeListener

Spec == Init /\ [][Next]_vars

\* The event loop runs every queued job: a settled promise's reaction and the
\* executor's continuation are eventually executed.
FairSpec == Spec /\ WF_vars(SetupStep) /\ WF_vars(PromiseStep)

TypeOK ==
  /\ setup \in {"discovering", "attached", "done", "settingsRejected",
               "constructorThrew"}
  /\ ready \in {"pending", "resolved", "rejected"}
  /\ _userManager \in BOOLEAN
  /\ subscribed \subseteq Events
  /\ _accessToken \in Tokens
  /\ pathname \in Paths
  /\ listeners \subseteq Listeners

\* ------------------------------------------------------------- properties
\* The value a lifecycle event leaves in the session state according to the
\* transition table: a credential only for a user-loaded with an unexpired user.
tableState(kind, user) ==
  IF kind = "userLoaded" /\ ~expired(user)
    THEN createAccessToken(user)
    ELSE NoToken

\* C1: after a lifecycle event the session state is Authenticated(c) iff the
\* event was a user-loaded whose raw user is unexpired and yields c; after any
\* other event, a user-loaded with an expired user included, it is absent.
C1_StateFollowsLastEvent ==
  last.kind \in Events => _accessToken = tableState(last.kind, last.user)

\* C2: a transition applied while the page is on the redirect path invokes no
\* listener of onUserStateChanged.
C2_NoNotificationWhileLoading ==
  (last.kind # "none" /\ last.loading) => \A l \in Listeners : invoked[l] = 0

C2_Witness ==
  last.kind # "none" /\ last.loading /\ last.listeners # {}

\* C3: a transition applied off the redirect path invokes every listener
\* subscribed at that moment exactly once, no other listener, and hands over
\* the session state as it then is.
C3_DeliveredOnceWithCurrentState ==
  (last.kind # "none" /\ ~last.loading) =>
    \A l \in Listeners :
      IF l \in last.listeners
        THEN invoked[l] = 1 /\ lastDelivered[l] = _accessToken
        ELSE invoked[l] = 0

C3_Witness ==
  /\ last.kind = "userLoaded"
  /\ ~last.loading
  /\ last.listeners # {}
  /\ _accessToken # NoToken

\* C4: a lifecycle event processed on the redirect path still stores its
\* result: the new credential for user-loaded, absence for the other events.
C4_SuppressedTransitionUpdatesState ==
  (last.kind \in Events /\ last.loading) =>
    _accessToken = (IF last.kind = "userLoaded"
                      THEN createAccessToken(last.user)
                      ELSE NoToken)

C4_Witness ==
  /\ last.kind = "userLoaded"
  /\ last.loading
  /\ last.listeners # {}
  /\ _accessToken = createAccessToken(last.user)

\* C5: ready eventually resolves in every execution of setup, settings or
\* construction failures included.
C5_ReadyEventuallyResolves == <>(ready = "resolved")

noCommand == UNCHANGED <<signinRedirects, signoutRedirects, replaced, pathname>>

\* C6 as stated: signIn or signOut before ready has resolved fails with the
\* precondition error and issues no command and no navigation.
C6_FailsBeforeReady ==
  [][((signIn \/ signOut) /\ ready # "resolved") =>
       (lastCall'.threw /\ noCommand)]_vars

\* C6 amended: signIn or signOut before the engine is attached fails with the
\* precondition error and issues no command and no navigation.
C6_FailsBeforeAttached ==
  [][((signIn \/ signOut) /\ ~_userManager) =>
       (lastCall'.threw /\ noCommand)]_vars

C6_Witness ==
  /\ lastCall.op = "signIn"
  /\ lastCall.threw
  /\ ~_userManager
  /\ ready = "pending"

\* C7: once ready has resolved, signIn issues exactly one signinRedirect and
\* signOut exactly one signoutRedirect, and neither throws.
C7_CommandsAfterReady ==
  [][/\ (signIn /\ ready = "resolved") =>
          /\ ~lastCall'.threw
          /\ signinRedirects' = signinRedirects + 1
          /\ signoutRedirects' = signoutRedirects
     /\ (signOut /\ ready = "resolved") =>
          /\ ~lastCall'.threw
          /\ signoutRedirects' = signoutRedirects + 1
          /\ signinRedirects' = signinRedirects]_vars

C7_Witness ==
  /\ ready = "resolved"
  /\ lastCall.op = "signOut"
  /\ ~lastCall.threw
  /\ signinRedirects = 1
  /\ signoutRedirects = 1

\* what dispose could touch: everything but the record of the calls made
managerVars ==
  <<setup, ready, _userManager, subscribed, getUser, signinCallback,
    signoutCallback, _accessToken, pathname, listeners, invoked, lastDelivered,
    signinRedirects, signoutRedirects, replaced, logged, unhandled, last>>

\* the state any dispose call leaves: no engine, or nothing subscribed
afterDispose == ~_userManager \/ subscribed = {}

\* C8: dispose never throws; before the engine is attached it changes nothing;
\* a call made in the state a previous call left changes nothing either.
C8_DisposeSafeAndIdempotent ==
  [][dispose =>
       /\ ~lastCall'.threw
       /\ afterDispose'
       /\ afterDispose => UNCHANGED managerVars]_vars

C8_Witness ==
  /\ lastCall.op = "dispose"
  /\ ~lastCall.threw
  /\ disposals >= 2
  /\ _userManager
  /\ subscribed = {}

\* C9: once dispose has been called no handler of the manager is, or later
\* becomes, subscribed to an engine event.
C9_NoDanglingSubscriptions == disposals > 0 => subscribed = {}

\* C10: an error raised during setup (settings, construction, initial query)
\* is logged and applied as an expired transition, notifying the listeners
\* unless the page is on the redirect path, and leaves no rejected promise.
C10_SetupErrorsAbsorbed ==
  [][(createOidcSettingsRejects \/ userManagerConstructorThrows \/ getUserRejected) =>
       /\ logged' = logged + 1
       /\ _accessToken' = NoToken
       /\ ~unhandled'
       /\ \A l \in listeners : invoked'[l] = (IF isLoading THEN 0 ELSE 1)]_vars

lacksMandatoryClaim(user) ==
  user.profile.email = Undefined \/ user.profile.sub = Undefined

\* C11: a raw user that lacks the subject id or the email never yields a
\* credential: after it arrives (user-loaded or initial query) the session
\* state is absent and no listener was handed a credential.
C11_MissingClaimYieldsNoCredential ==
  (last.user # NoUser /\ lacksMandatoryClaim(last.user)) =>
    /\ _accessToken = NoToken
    /\ \A l \in Listeners : invoked[l] > 0 => lastDelivered[l] = NoToken

\* C12: the credential built from a raw user with expiry T and remaining
\* validity D has the window [T - D, T] and the user's token string and
\* identity claims, copied as they are.
C12_CredentialFromRawUser ==
  last.user # NoUser =>
    /\ _accessToken.startsAt = last.user.expires_at - last.user.expires_in
    /\ _accessToken.expiresAt = last.user.expires_at
    /\ _accessToken.jwt = last.user.access_token
    /\ _accessToken.email = last.user.profile.email
    /\ _accessToken.sub = last.user.profile.sub

C12_Witness ==
  /\ last.kind = "userLoaded"
  /\ last.user.expires_at = 9
  /\ _accessToken # NoToken
  /\ _accessToken.startsAt = 7
  /\ _accessToken.expiresAt = 9

getUserResults == {"getUserNone", "getUserExpired", "getUserValid"}

\* C13: setup queries the current user once, with all five handlers
\* subscribed; a present, unexpired user is loaded with its credential, no
\* user or an expired user is applied as expired.
C13_InitialQuery ==
  /\ (getUser # "idle") <=> (setup \in {"attached", "done"})
  /\ (getUser # "idle") => (subscribed = Events \/ disposals > 0)
  /\ last.kind \in getUserResults => getUser = "settled"
  /\ last.kind = "getUserValid" =>
       (~expired(last.user) /\ _accessToken = createAccessToken(last.user))
  /\ last.kind \in {"getUserNone", "getUserExpired"} => _accessToken = NoToken

C13_Witness ==
  /\ last.kind = "getUserExpired"
  /\ getUser = "settled"
  /\ _accessToken = NoToken

callbackSucceeds == signinCallbackFulfilled \/ signoutCallbackFulfilled

callbackStarts ==
  \/ (signinCallback = "idle" /\ signinCallback' # "idle")
  \/ (signoutCallback = "idle" /\ signoutCallback' # "idle")

\* C14: the location is replaced with the root exactly when a redirect
\* callback completes successfully, and the callbacks are started only by
\* setup running on the redirect path.
C14_ReplaceOnlyOnCallbackSuccess ==
  [][/\ callbackSucceeds => (replaced' = replaced + 1 /\ pathname' = RootPath)
     /\ (replaced' # replaced \/ pathname' # pathname) => callbackSucceeds
     /\ callbackStarts =>
          (pathname = RedirectPath /\ setup = "discovering" /\ setup' = "attached")]_vars

C14_Witness ==
  /\ replaced = 1
  /\ pathname = RootPath
  /\ signinCallback = "settled"
  /\ signoutCallback = "pending"

validWindow(token) == token # NoToken => token.startsAt <= token.expiresAt

\* C15: every credential held or delivered has start <= expiry.
C15_StartNotAfterExpiry ==
  /\ validWindow(_accessToken)
  /\ \A l \in Listeners : validWindow(lastDelivered[l])

\* C16: the result of the initial query does not overwrite the state a
\* lifecycle event produced after the query was issued.
C16_QueryResultKeepsNewerState ==
  [][((getUserFulfilled \/ getUserRejected) /\ last.kind \in Events) =>
       _accessToken' = _accessToken]_vars

\* C17: after dispose on a manager whose engine is attached the session
\* state never changes and no listener is invoked again.
C17_InertAfterDispose ==
  [][(_userManager /\ disposals > 0 /\ subscribed = {}) =>
       (_accessToken' = _accessToken /\ UNCHANGED channelVars)]_vars

\* C18: off the redirect path, once a transition has been applied, the value
\* last delivered to a listener subscribed since construction is the current
\* session state.
C18_NoStaleSubscriber ==
  (pathname # RedirectPath /\ last.kind # "none") =>
    \A l \in sinceConstruction : lastDelivered[l] = _accessToken

\* a step that runs a handler: an engine event is dispatched, the initial
\* query settles, or a redirect callback settles without replacing the location
handlerRuns ==
  /\ nCalls' = nCalls
  /\ setup' = setup
  /\ replaced' = replaced
  /\ \/ nEvents' = nEvents + 1
     \/ (getUser = "pending" /\ getUser' = "settled")
     \/ (signinCallback = "pending" /\ signinCallback' = "settled")
     \/ (signoutCallback = "pending" /\ signoutCallback' = "settled")

\* C19: signIn and signOut leave the session state, the listeners and what
\* they were handed alone; the session state changes only in a handler run
\* for an engine event, the initial query's result or a callback error.
C19_CallsLeaveSessionState ==
  [][/\ (signIn \/ signOut) =>
          UNCHANGED <<_accessToken, listeners, invoked, lastDelivered>>
     /\ _accessToken' # _accessToken => handlerRuns]_vars

C19_Witness ==
  /\ lastCall.op = "signOut"
  /\ ~lastCall.threw
  /\ _accessToken # NoToken
  /\ listeners # {}

====
